---- MODULE Spec2Model ----
(***************************************************************************)
(* A model of find-political-donors: main.py (read_file and the main       *)
(* block), transaction_handling.py (TransactionThread and its two          *)
(* subclasses) and heap.py (MinHeap, MaxHeap).                             *)
(*                                                                         *)
(* Text is a sequence of one-character strings.  A float is an integer     *)
(* number of 1/Scale units; the amount literals of the model are dyadic,   *)
(* so that every sum and every average of two of them is exact in binary   *)
(* floating point, as it is here.                                          *)
(***************************************************************************)
EXTENDS Integers, Sequences, FiniteSets, TLC

\* ------------------------------------------------------------------ bounds
\* the number of lines the input file may hold
MaxLines == 3
\* the number of insertions of the tracker harness
MaxInserts == 4
\* the number of lines of the input file in the behaviours checked for progress
MaxFairLines == 2

\* ------------------------------------------------- constants of main.py
CMTE_ID_POSITION == 0
ZIPCODE_POSITION == 10
TRANSACTION_DT_POSITION == 13
TRANSACTION_AMT_POSITION == 14
OTHER_ID_POSITION == 15

\* float(...): amounts are held in units of 1/Scale
Scale == 4

\* ------------------------------------------------------------------- text
Digits == <<"0", "1", "2", "3", "4", "5", "6", "7", "8", "9">>

IsDigit(c) == \E i \in 1..10 : Digits[i] = c

DigitVal(c) == (CHOOSE i \in 1..10 : Digits[i] = c) - 1

AllDigits(s) == \A i \in 1..Len(s) : IsDigit(s[i])

RECURSIVE NatOf(_)
\* int of a string of digits
NatOf(s) ==
    IF s = <<>> THEN 0
    ELSE 10 * NatOf(SubSeq(s, 1, Len(s) - 1)) + DigitVal(s[Len(s)])

RECURSIVE Pow10(_)
Pow10(k) == IF k = 0 THEN 1 ELSE 10 * Pow10(k - 1)

\* Python's s[a:b] on a sequence (0-based, b exclusive, clipped)
Slice(s, a, b) == SubSeq(s, a + 1, IF b > Len(s) THEN Len(s) ELSE b)

RECURSIVE Split(_, _)
\* str.split(sep): the fields between the separators, empty ones included
Split(s, sep) ==
    IF \A i \in 1..Len(s) : s[i] # sep THEN <<s>>
    ELSE LET p == CHOOSE i \in 1..Len(s) :
                      s[i] = sep /\ \A j \in 1..(i - 1) : s[j] # sep
         IN  <<SubSeq(s, 1, p - 1)>> \o Split(SubSeq(s, p + 1, Len(s)), sep)

RECURSIVE Join(_, _)
\* sep.join(fields)
Join(fields, sep) ==
    IF fields = <<>> THEN <<>>
    ELSE IF Len(fields) = 1 THEN fields[1]
    ELSE fields[1] \o <<sep>> \o Join(Tail(fields), sep)

\* ---------------------------------------------------------------- numbers
\* int(x) of the float n/d: truncation toward zero
PyInt(n, d) == IF n >= 0 THEN n \div d ELSE -((-n) \div d)

\* round(x) of Python 2: nearest integer, ties away from zero
RoundHalfAway(n, d) ==
    IF n >= 0 THEN (2 * n + d) \div (2 * d) ELSE -((2 * (-n) + d) \div (2 * d))

\* round(x) of Python 3: nearest integer, ties to the even integer
RoundHalfEven(n, d) ==
    LET f == n \div d
        r == n - f * d
    IN  IF 2 * r < d THEN f
        ELSE IF 2 * r > d THEN f + 1
        ELSE IF f % 2 = 0 THEN f ELSE f + 1

\* the unsigned part of a float literal: digits [ "." digits ], one at least
IsUnsignedNumeral(s) ==
    LET parts == Split(s, ".")
    IN  /\ Len(parts) \in {1, 2}
        /\ \A i \in 1..Len(parts) : AllDigits(parts[i])
        /\ \E i \in 1..Len(parts) : parts[i] # <<>>

UnsignedFloat(s) ==
    LET parts == Split(s, ".")
        frac  == IF Len(parts) = 2 THEN parts[2] ELSE <<>>
    IN  NatOf(parts[1]) * Scale + (NatOf(frac) * Scale) \div Pow10(Len(frac))

HasSign(s) == s # <<>> /\ s[1] \in {"-", "+"}

\* is_number(s): float(s) does not raise ValueError
is_number(s) == IsUnsignedNumeral(IF HasSign(s) THEN Tail(s) ELSE s)

\* float(s), in units of 1/Scale
float(s) ==
    IF HasSign(s)
    THEN (IF s[1] = "-" THEN -1 ELSE 1) * UnsignedFloat(Tail(s))
    ELSE UnsignedFloat(s)

\* ------------------------------------------------------------------ dates
NonZeroDigits == {"1", "2", "3", "4", "5", "6", "7", "8", "9"}

Drop(s, n) == SubSeq(s, n + 1, Len(s))

\* %m is the pattern 1[0-2]|0[1-9]|[1-9]: the lengths it can take at the
\* head of s, in the order the regular expression tries them
MonthAlts(s) ==
    (IF Len(s) >= 2 /\ (\/ s[1] = "1" /\ s[2] \in {"0", "1", "2"}
                        \/ s[1] = "0" /\ s[2] \in NonZeroDigits)
     THEN <<2>> ELSE <<>>)
    \o (IF Len(s) >= 1 /\ s[1] \in NonZeroDigits THEN <<1>> ELSE <<>>)

\* %d is the pattern 3[0-1]|[1-2]\d|0[1-9]|[1-9]| [1-9]
DayAlts(s) ==
    (IF Len(s) >= 2 /\ (\/ s[1] = "3" /\ s[2] \in {"0", "1"}
                        \/ s[1] \in {"1", "2"} /\ IsDigit(s[2])
                        \/ s[1] = "0" /\ s[2] \in NonZeroDigits)
     THEN <<2>> ELSE <<>>)
    \o (IF Len(s) >= 1 /\ s[1] \in NonZeroDigits THEN <<1>> ELSE <<>>)
    \o (IF Len(s) >= 2 /\ s[1] = " " /\ s[2] \in NonZeroDigits
        THEN <<2>> ELSE <<>>)

\* %Y is the pattern \d\d\d\d
YearMatches(s) == Len(s) >= 4 /\ AllDigits(SubSeq(s, 1, 4))

PairsFor(s, ml) ==
    LET da == DayAlts(Drop(s, ml))
    IN  [j \in 1..Len(da) |-> <<ml, da[j]>>]

\* the <<month length, day length>> splits of s, in backtracking order
DateSplits(s) ==
    LET ma  == MonthAlts(s)
        all == IF Len(ma) = 0 THEN <<>>
               ELSE IF Len(ma) = 1 THEN PairsFor(s, ma[1])
               ELSE PairsFor(s, ma[1]) \o PairsFor(s, ma[2])
    IN  SelectSeq(all, LAMBDA p : YearMatches(Drop(s, p[1] + p[2])))

IsLeap(y) == y % 4 = 0 /\ (y % 100 # 0 \/ y % 400 = 0)

DaysIn(m, y) ==
    IF m = 2 THEN (IF IsLeap(y) THEN 29 ELSE 28)
    ELSE IF m \in {4, 6, 9, 11} THEN 30 ELSE 31

\* is_valid_date(date_str): datetime.strptime(date_str, '%m%d%Y') succeeds.
\* The first split the pattern matches is taken; text left over after the
\* year, a year 0 and a day the month does not have raise ValueError.
is_valid_date(date_str) ==
    /\ DateSplits(date_str) # <<>>
    /\ LET p  == DateSplits(date_str)[1]
           m  == NatOf(SubSeq(date_str, 1, p[1]))
           ds == SubSeq(date_str, p[1] + 1, p[1] + p[2])
           d  == NatOf(SelectSeq(ds, IsDigit))
           y  == NatOf(SubSeq(date_str, p[1] + p[2] + 1, p[1] + p[2] + 4))
       IN  /\ Len(date_str) = p[1] + p[2] + 4
           /\ y >= 1
           /\ d <= DaysIn(m, y)

\* ------------------------------------------------------------------ dicts
\* A dict is the sequence of its <<key, value>> items in insertion order.
Keys(d) == [i \in 1..Len(d) |-> d[i][1]]

Has(d, k) == \E i \in 1..Len(d) : d[i][1] = k

Get(d, k) == d[CHOOSE i \in 1..Len(d) : d[i][1] = k][2]

Put(d, k, v) ==
    IF Has(d, k) THEN [i \in 1..Len(d) |-> IF d[i][1] = k THEN <<k, v>> ELSE d[i]]
    ELSE Append(d, <<k, v>>)

\* ---------------------------------------------------------------- heap.py
\* heapq keeps self.heap a binary heap; the sorted list is the heap layout
\* used here: heap[0] is the least element, heappop removes it.
RECURSIVE heappush(_, _)
heappush(h, v) ==
    IF h = <<>> THEN <<v>>
    ELSE IF v <= Head(h) THEN <<v>> \o h
    ELSE <<Head(h)>> \o heappush(Tail(h), v)

heappop(h) == Tail(h)

None == "None"

MinHeap_push(h, value) == heappush(h, value)
MinHeap_pop_value(h) == IF h # <<>> THEN Head(h) ELSE None
MinHeap_pop(h) == IF h # <<>> THEN heappop(h) ELSE h
MinHeap_peek(h) == IF h # <<>> THEN h[1] ELSE None

\* MaxHeap stores the negated values in a min-heap
MaxHeap_push(h, value) == heappush(h, -value)
MaxHeap_pop_value(h) == IF h # <<>> THEN -Head(h) ELSE None
MaxHeap_pop(h) == IF h # <<>> THEN heappop(h) ELSE h
MaxHeap_peek(h) == IF h # <<>> THEN -h[1] ELSE None

size(h) == Len(h)
empty(h) == h = <<>>

\* ------------------------------------------------------------------ state
VARIABLES
    py,                     \* sys.version_info[0] of the interpreter: 2 or 3
    input_file,             \* the lines read_file has read so far
    pc,                     \* the main thread's position
    objects,                \* the dicts read_file built, by object id
    distilled_data,         \* the object id read_file holds, 0 for none
    end_data,               \* the object id of the sentinel, 0 before it
    task_queue,             \* per thread: the ids queued, oldest first
    unfinished_tasks,       \* per thread: puts not yet matched by task_done
    total_amt_dict,         \* per thread: identifier -> running sum
    transaction_amt_heaps,  \* per thread: identifier -> <<lower, higher>>
    output_file,            \* per thread: the file open(path, 'w') made, the
                            \*   lines written to it, and whether it is closed
    data,                   \* per thread: the id run() holds, 0 for none
    state,                  \* per thread: "get", "handler" or "dead"
    tracker,                \* the harness's transaction_amt_heaps
    inserted,               \* the harness's insertions: identifier -> amounts
    pending                 \* the harness's key awaiting its rebalance

vars == <<py, input_file, pc, objects, distilled_data, end_data, task_queue,
          unfinished_tasks, total_amt_dict, transaction_amt_heaps,
          output_file, data, state, tracker, inserted, pending>>

mainVars == <<input_file, pc, objects, distilled_data, end_data>>
threadVars == <<task_queue, unfinished_tasks, total_amt_dict,
                transaction_amt_heaps, output_file, data, state>>
harnessVars == <<tracker, inserted, pending>>

Threads == {"date", "zip"}

\* ------------------------------------------- TransactionThread's trackers
\* round(x) of the running interpreter
PyRound(v, n, d) == IF v = 2 THEN RoundHalfAway(n, d) ELSE RoundHalfEven(n, d)

NewHeaps == << <<>>, <<>> >>

\* an insert with the comparison against the root of lower turned round
add_number_flipped(heaps, identifier, number) ==
    LET h0   == IF Has(heaps, identifier) THEN heaps
                ELSE Put(heaps, identifier, NewHeaps)
        pair == Get(h0, identifier)
    IN  IF empty(pair[1]) \/ number > MaxHeap_peek(pair[1])
        THEN Put(h0, identifier, <<MaxHeap_push(pair[1], number), pair[2]>>)
        ELSE Put(h0, identifier, <<pair[1], MinHeap_push(pair[2], number)>>)

\* an insert that only creates the two heaps of a key it has not seen
add_number_only_creates(heaps, identifier, number) ==
    LET pair == Get(heaps, identifier)
    IN  IF ~Has(heaps, identifier)
        THEN Put(heaps, identifier, NewHeaps)
        ELSE IF empty(pair[1]) \/ number < MaxHeap_peek(pair[1])
             THEN Put(heaps, identifier, <<MaxHeap_push(pair[1], number), pair[2]>>)
             ELSE Put(heaps, identifier, <<pair[1], MinHeap_push(pair[2], number)>>)

transaction_heaps_add_number(heaps, identifier, number) ==
    LET h0   == IF Has(heaps, identifier) THEN heaps
                ELSE Put(heaps, identifier, NewHeaps)
        pair == Get(h0, identifier)
    IN  IF empty(pair[1]) \/ number < MaxHeap_peek(pair[1])
        THEN Put(h0, identifier, <<MaxHeap_push(pair[1], number), pair[2]>>)
        ELSE Put(h0, identifier, <<pair[1], MinHeap_push(pair[2], number)>>)

\* a rebalance that waits for a difference of 3 before it moves an element
rebalance_late(heaps, identifier) ==
    LET pair        == Get(heaps, identifier)
        lowerBigger == size(pair[1]) > size(pair[2])
        bigger      == IF lowerBigger THEN pair[1] ELSE pair[2]
        smaller     == IF lowerBigger THEN pair[2] ELSE pair[1]
    IN  IF size(bigger) - size(smaller) >= 3
        THEN IF lowerBigger
             THEN Put(heaps, identifier,
                      <<MaxHeap_pop(pair[1]),
                        MinHeap_push(pair[2], MaxHeap_pop_value(pair[1]))>>)
             ELSE Put(heaps, identifier,
                      <<MaxHeap_push(pair[1], MinHeap_pop_value(pair[2])),
                        MinHeap_pop(pair[2])>>)
        ELSE heaps

\* a rebalance that does nothing
rebalance_skipped(heaps, identifier) == heaps

\* a rebalance that pops the root of the bigger heap and pushes it nowhere
rebalance_losing(heaps, identifier) ==
    LET pair        == Get(heaps, identifier)
        lowerBigger == size(pair[1]) > size(pair[2])
        bigger      == IF lowerBigger THEN pair[1] ELSE pair[2]
        smaller     == IF lowerBigger THEN pair[2] ELSE pair[1]
    IN  IF size(bigger) - size(smaller) >= 2
        THEN IF lowerBigger
             THEN Put(heaps, identifier, <<MaxHeap_pop(pair[1]), pair[2]>>)
             ELSE Put(heaps, identifier, <<pair[1], MinHeap_pop(pair[2])>>)
        ELSE heaps

transaction_heaps_rebalance(heaps, identifier) ==
    LET pair        == Get(heaps, identifier)
        lowerBigger == size(pair[1]) > size(pair[2])
        bigger      == IF lowerBigger THEN pair[1] ELSE pair[2]
        smaller     == IF lowerBigger THEN pair[2] ELSE pair[1]
    IN  IF size(bigger) - size(smaller) >= 2
        THEN IF lowerBigger
             THEN Put(heaps, identifier,
                      <<MaxHeap_pop(pair[1]),
                        MinHeap_push(pair[2], MaxHeap_pop_value(pair[1]))>>)
             ELSE Put(heaps, identifier,
                      <<MaxHeap_push(pair[1], MinHeap_pop_value(pair[2])),
                        MinHeap_pop(pair[2])>>)
        ELSE heaps

\* transaction_heaps_get_median raises: the key is missing (KeyError) or
\* both heaps are empty (None + None is a TypeError); neither is the
\* IndexError the code catches
MedianRaises(heaps, identifier) ==
    \/ ~Has(heaps, identifier)
    \/ empty(Get(heaps, identifier)[1]) /\ empty(Get(heaps, identifier)[2])

\* the float transaction_heaps_get_median rounds, as <<numerator, denominator>>
MedianFloat(heaps, identifier) ==
         LET pair        == Get(heaps, identifier)
             lowerBigger == size(pair[1]) > size(pair[2])
             biggerPeek  == IF lowerBigger THEN MaxHeap_peek(pair[1])
                            ELSE MinHeap_peek(pair[2])
             smallerPeek == IF lowerBigger THEN MinHeap_peek(pair[2])
                            ELSE MaxHeap_peek(pair[1])
         IN  IF size(pair[1]) = size(pair[2])
             THEN <<biggerPeek + smallerPeek, 2 * Scale>>
             ELSE <<biggerPeek, Scale>>

transaction_heaps_get_median(v, heaps, identifier) ==
    LET m == MedianFloat(heaps, identifier)
    IN  PyRound(v, m[1], m[2])

\* a count that forgets the higher heap
lower_size_only(heaps, identifier) == size(Get(heaps, identifier)[1])

\* size() of the lower heap plus size() of the higher heap
NumberOfTransactions(heaps, identifier) ==
    size(Get(heaps, identifier)[1]) + size(Get(heaps, identifier)[2])

\* ------------------------------------------------------------- the input
\* a line of the 21 columns of the input format, ended by its newline
MkLine(cmte_id, zipcode, transaction_dt, transaction_amt, other_id) ==
    Join([i \in 1..21 |->
            IF i = CMTE_ID_POSITION + 1 THEN cmte_id
            ELSE IF i = ZIPCODE_POSITION + 1 THEN zipcode
            ELSE IF i = TRANSACTION_DT_POSITION + 1 THEN transaction_dt
            ELSE IF i = TRANSACTION_AMT_POSITION + 1 THEN transaction_amt
            ELSE IF i = OTHER_ID_POSITION + 1 THEN other_id
            ELSE <<>>], "|") \o <<"\n">>

Zip5a == <<"9", "0", "0", "1", "7">>
Zip9a == <<"9", "0", "0", "1", "7", "1", "2", "3", "4">>
Zip4  == <<"9", "0", "0", "1">>
Zip5b == <<"1", "0", "0", "0", "1">>
Date8  == <<"0", "1", "0", "1", "2", "0", "1", "7">>
Date7  == <<"1", "1", "2", "2", "0", "1", "7">>
DateBad == <<"1", "3", "0", "1", "2", "0", "1", "7">>

\* the lines the input file is made of
Lines ==
    { MkLine(<<"C">>, Zip5a, Date8, <<"2">>, <<>>),
      MkLine(<<"C">>, Zip9a, Date8, <<"3">>, <<>>),
      MkLine(<<"C">>, Zip4, Date8, <<"0", ".", "7", "5">>, <<>>),
      MkLine(<<"C">>, Zip5a, DateBad, <<"-", "2">>, <<>>),
      MkLine(<<"C">>, Zip5b, Date7, <<"5">>, <<>>),
      MkLine(<<"C">>, Zip5a, Date8, <<"2">>, <<"X">>),
      MkLine(<<"C">>, Zip5a, Date8, <<"x">>, <<>>),
      MkLine(<<"C">>, Zip5a, <<>>, <<>>, <<>>),
      MkLine(<<>>, Zip5a, Date8, <<"2">>, <<>>),
      <<"\n">> }

\* -------------------------------------------------------------------- Init
Init ==
    /\ py \in {2, 3}
    /\ input_file = <<>>
    /\ pc = "read"
    /\ objects = <<>>
    /\ distilled_data = 0
    /\ end_data = 0
    /\ task_queue = [t \in Threads |-> <<>>]
    /\ unfinished_tasks = [t \in Threads |-> 0]
    /\ total_amt_dict = [t \in Threads |-> <<>>]
    /\ transaction_amt_heaps = [t \in Threads |-> <<>>]
    /\ output_file = [t \in Threads |-> [exists |-> TRUE, lines |-> <<>>, closed |-> FALSE]]
    /\ data = [t \in Threads |-> 0]
    /\ state = [t \in Threads |-> "get"]
    /\ tracker = <<>>
    /\ inserted = <<>>
    /\ pending = <<>>

\* ---------------------------------------------------------------- main.py
\* the process runs until the main thread ends: the workers are daemons
Running == pc \notin {"done", "exit1"}

\* add_task(item): Queue.put
add_task(t, item) ==
    /\ task_queue' = [task_queue EXCEPT ![t] = Append(@, item)]
    /\ unfinished_tasks' = [unfinished_tasks EXCEPT ![t] = @ + 1]

\* one pass of the for loop of read_file up to the dispatch: the line is
\* split and validated and distilled_data is built.  An IndexError of
\* line_items[...] leaves read_file and reaches the bare except of the main
\* block, which calls sys.exit(1).
ReadLine(line) ==
    /\ pc = "read"
    /\ Len(input_file) < MaxLines
    /\ input_file' = Append(input_file, line)
    /\ LET line_items == Split(line, "|")
       IN  IF Len(line_items) <= OTHER_ID_POSITION
           THEN /\ pc' = "exit1"
                /\ UNCHANGED <<objects, distilled_data>>
           ELSE IF line_items[OTHER_ID_POSITION + 1] # <<>>
           THEN UNCHANGED <<pc, objects, distilled_data>>
           ELSE IF \/ line_items[CMTE_ID_POSITION + 1] = <<>>
                   \/ line_items[TRANSACTION_AMT_POSITION + 1] = <<>>
                   \/ ~is_number(line_items[TRANSACTION_AMT_POSITION + 1])
           THEN UNCHANGED <<pc, objects, distilled_data>>
           ELSE /\ objects' = Append(objects,
                      [cmte_id |-> line_items[CMTE_ID_POSITION + 1],
                       zipcode |-> line_items[ZIPCODE_POSITION + 1],
                       transaction_dt |-> line_items[TRANSACTION_DT_POSITION + 1],
                       transaction_amt |->
                           float(line_items[TRANSACTION_AMT_POSITION + 1])])
                /\ distilled_data' = Len(objects) + 1
                /\ pc' = "date"
    /\ UNCHANGED <<py, end_data>>
    /\ UNCHANGED threadVars
    /\ UNCHANGED harnessVars

\* lines 72-73 of read_file
DispatchDate ==
    /\ pc = "date"
    /\ LET d == objects[distilled_data]
       IN  IF d.transaction_dt # <<>> /\ is_valid_date(d.transaction_dt)
           THEN add_task("date", distilled_data)
           ELSE UNCHANGED <<task_queue, unfinished_tasks>>
    /\ pc' = "zip"
    /\ UNCHANGED <<py, input_file, objects, distilled_data, end_data>>
    /\ UNCHANGED <<total_amt_dict, transaction_amt_heaps, output_file, data, state>>
    /\ UNCHANGED harnessVars

\* lines 75-77 of read_file: the zipcode of the dict already handed to the
\* date thread is overwritten in place
DispatchZip ==
    /\ pc = "zip"
    /\ IF Len(objects[distilled_data].zipcode) >= 5
       THEN /\ objects' = [objects EXCEPT ![distilled_data].zipcode = Slice(@, 0, 5)]
            /\ add_task("zip", distilled_data)
       ELSE UNCHANGED <<objects, task_queue, unfinished_tasks>>
    /\ pc' = "read"
    /\ UNCHANGED <<py, input_file, distilled_data, end_data>>
    /\ UNCHANGED <<total_amt_dict, transaction_amt_heaps, output_file, data, state>>
    /\ UNCHANGED harnessVars

\* the for loop ends; line 78 builds end_data
EndOfFile ==
    /\ pc = "read"
    /\ objects' = Append(objects, [cmte_id |-> <<>>, zipcode |-> <<>>,
                                   transaction_dt |-> <<>>, transaction_amt |-> 0])
    /\ end_data' = Len(objects) + 1
    /\ pc' = "end_date"
    /\ UNCHANGED <<py, input_file, distilled_data>>
    /\ UNCHANGED threadVars
    /\ UNCHANGED harnessVars

\* line 79
PutEndDate ==
    /\ pc = "end_date"
    /\ add_task("date", end_data)
    /\ pc' = "end_zip"
    /\ UNCHANGED <<py, input_file, objects, distilled_data, end_data>>
    /\ UNCHANGED <<total_amt_dict, transaction_amt_heaps, output_file, data, state>>
    /\ UNCHANGED harnessVars

\* both end markers put on the queue of the date thread
PutEndZip_to_date ==
    /\ pc = "end_zip"
    /\ add_task("date", end_data)
    /\ pc' = "wait_date"
    /\ UNCHANGED <<py, input_file, objects, distilled_data, end_data>>
    /\ UNCHANGED <<total_amt_dict, transaction_amt_heaps, output_file, data, state>>
    /\ UNCHANGED harnessVars

\* lines 80-81; read_file returns
PutEndZip ==
    /\ pc = "end_zip"
    /\ add_task("zip", end_data)
    /\ pc' = "wait_date"
    /\ UNCHANGED <<py, input_file, objects, distilled_data, end_data>>
    /\ UNCHANGED <<total_amt_dict, transaction_amt_heaps, output_file, data, state>>
    /\ UNCHANGED harnessVars

\* wait_complete(): Queue.join returns once every put has its task_done
wait_complete(t, next) ==
    /\ unfinished_tasks[t] = 0
    /\ pc' = next
    /\ UNCHANGED <<py, input_file, objects, distilled_data, end_data>>
    /\ UNCHANGED threadVars
    /\ UNCHANGED harnessVars

WaitDate == pc = "wait_date" /\ wait_complete("date", "wait_zip")

WaitZip == pc = "wait_zip" /\ wait_complete("zip", "done")

\* ------------------------------------------------ transaction_handling.py
\* run(): data = self.task_queue.get()
Get_task(t) ==
    /\ Running
    /\ state[t] = "get"
    /\ task_queue[t] # <<>>
    /\ data' = [data EXCEPT ![t] = Head(task_queue[t])]
    /\ task_queue' = [task_queue EXCEPT ![t] = Tail(@)]
    /\ state' = [state EXCEPT ![t] = "handler"]
    /\ UNCHANGED <<py, unfinished_tasks, total_amt_dict, transaction_amt_heaps,
                   output_file>>
    /\ UNCHANGED mainVars
    /\ UNCHANGED harnessVars

\* '%s|%s' % (part1, part2)
Identifier(part1, part2) == part1 \o <<"|">> \o part2

\* the injective maps of 1..n onto itself
Perms(n) == {f \in [1..n -> 1..n] : \A i, j \in 1..n : f[i] = f[j] => i = j}

\* the orders "for identifier in self.transaction_amt_heaps" can take:
\* insertion order on Python 3, any order on Python 2
IterOrders(v, d) ==
    IF v = 3 THEN {Keys(d)}
    ELSE {[i \in 1..Len(d) |-> Keys(d)[f[i]]] : f \in Perms(Len(d))}

\* the line the date handler writes for one identifier (lines 149-154)
DateLine(v, heaps, totals, identifier) ==
    <<Split(identifier, "|")[1],
      Split(identifier, "|")[2],
      transaction_heaps_get_median(v, heaps, identifier),
      NumberOfTransactions(heaps, identifier),
      PyInt(Get(totals, identifier), Scale)>>

\* the line the zip handler writes for one record (lines 190-193)
ZipLine(v, heaps, totals, d) ==
    LET identifier == Identifier(d.cmte_id, d.zipcode)
    IN  <<d.cmte_id,
          d.zipcode,
          transaction_heaps_get_median(v, heaps, identifier),
          NumberOfTransactions(heaps, identifier),
          PyInt(Get(totals, identifier), Scale)>>

\* a handler that inserts the amount but leaves the running sum as it was
Accumulate_no_total(t, identifier, amount) ==
    /\ total_amt_dict' = [total_amt_dict EXCEPT ![t] =
           Put(@, identifier,
               IF Has(@, identifier) THEN Get(@, identifier) ELSE 0)]
    /\ transaction_amt_heaps' = [transaction_amt_heaps EXCEPT ![t] =
           transaction_heaps_rebalance(
               transaction_heaps_add_number(@, identifier, amount), identifier)]

\* total_amt_dict as one dictionary of the class, shared by both threads
Accumulate_shared(t, identifier, amount) ==
    /\ total_amt_dict' = [u \in Threads |->
           Put(total_amt_dict[u], identifier,
               (IF Has(total_amt_dict[u], identifier)
                THEN Get(total_amt_dict[u], identifier) ELSE 0) + amount)]
    /\ transaction_amt_heaps' = [transaction_amt_heaps EXCEPT ![t] =
           transaction_heaps_rebalance(
               transaction_heaps_add_number(@, identifier, amount), identifier)]

\* lines 158-163 and 184-189: the running sum and the two heaps of one key
Accumulate(t, identifier, amount) ==
    /\ total_amt_dict' = [total_amt_dict EXCEPT ![t] =
           Put(@, identifier,
               (IF Has(@, identifier) THEN Get(@, identifier) ELSE 0) + amount)]
    /\ transaction_amt_heaps' = [transaction_amt_heaps EXCEPT ![t] =
           transaction_heaps_rebalance(
               transaction_heaps_add_number(@, identifier, amount), identifier)]

\* a run() that loops without calling task_done
task_done_forgotten(t) ==
    /\ state' = [state EXCEPT ![t] = "get"]
    /\ UNCHANGED unfinished_tasks

\* self.task_queue.task_done(), and run() loops
task_done(t) ==
    /\ unfinished_tasks' = [unfinished_tasks EXCEPT ![t] = @ - 1]
    /\ state' = [state EXCEPT ![t] = "get"]

\* the handler raised: run() ends without task_done and the thread is gone
thread_dies(t) ==
    /\ state' = [state EXCEPT ![t] = "dead"]
    /\ UNCHANGED unfinished_tasks

\* TransactionByDateThread.handler, then task_done
DateHandler ==
    /\ Running
    /\ state["date"] = "handler"
    /\ LET d     == objects[data["date"]]
           heaps == transaction_amt_heaps["date"]
       IN  IF d.cmte_id = <<>>
           THEN /\ UNCHANGED <<total_amt_dict, transaction_amt_heaps>>
                /\ IF \/ output_file["date"].closed /\ Len(heaps) > 0
                      \/ \E i \in 1..Len(heaps) : MedianRaises(heaps, heaps[i][1])
                   THEN /\ thread_dies("date")
                        /\ UNCHANGED output_file
                   ELSE /\ \E order \in IterOrders(py, heaps) :
                             output_file' = [output_file EXCEPT !["date"] =
                                 [@ EXCEPT
                                    !.lines = @ \o
                                       [i \in 1..Len(order) |->
                                          DateLine(py, heaps, total_amt_dict["date"],
                                                   order[i])],
                                    !.closed = TRUE]]
                        /\ task_done("date")
           ELSE /\ Accumulate("date", Identifier(d.cmte_id, d.transaction_dt),
                              d.transaction_amt)
                /\ UNCHANGED output_file
                /\ task_done("date")
    /\ UNCHANGED <<py, task_queue, data>>
    /\ UNCHANGED mainVars
    /\ UNCHANGED harnessVars

\* TransactionByZipThread.handler, then task_done
ZipHandler ==
    /\ Running
    /\ state["zip"] = "handler"
    /\ LET d == objects[data["zip"]]
       IN  IF d.cmte_id = <<>>
           THEN /\ output_file' = [output_file EXCEPT !["zip"].closed = TRUE]
                /\ UNCHANGED <<total_amt_dict, transaction_amt_heaps>>
                /\ task_done("zip")
           ELSE /\ Accumulate("zip", Identifier(d.cmte_id, d.zipcode),
                              d.transaction_amt)
                /\ IF \/ output_file["zip"].closed
                      \/ MedianRaises(transaction_amt_heaps'["zip"],
                                      Identifier(d.cmte_id, d.zipcode))
                   THEN /\ thread_dies("zip")
                        /\ UNCHANGED output_file
                   ELSE /\ output_file' = [output_file EXCEPT !["zip"].lines =
                               Append(@, ZipLine(py, transaction_amt_heaps'["zip"],
                                                 total_amt_dict'["zip"], d))]
                        /\ task_done("zip")
    /\ UNCHANGED <<py, task_queue, data>>
    /\ UNCHANGED mainVars
    /\ UNCHANGED harnessVars

\* ------------------------------------------------------------ tracker harness
\* One TransactionThread's trackers driven directly: an insertion of an
\* amount under a key, and the rebalance that follows it.
Idents == {<<"k">>, <<"m">>}

\* the amounts 0.75 ... and the whole numbers around zero, in 1/Scale units
Amounts == {-2 * Scale, 0, 3, 2 * Scale, 3 * Scale, 5 * Scale}

TotalInserted ==
    LET RECURSIVE Sum(_)
        Sum(i) == IF i = 0 THEN 0 ELSE Len(inserted[i][2]) + Sum(i - 1)
    IN  Sum(Len(inserted))

T_Add(identifier, number) ==
    /\ pc = "harness"
    /\ pending = <<>>
    /\ TotalInserted < MaxInserts
    /\ tracker' = transaction_heaps_add_number(tracker, identifier, number)
    /\ inserted' = Put(inserted, identifier,
                       Append(IF Has(inserted, identifier)
                              THEN Get(inserted, identifier) ELSE <<>>, number))
    /\ pending' = <<identifier>>
    /\ UNCHANGED py
    /\ UNCHANGED mainVars
    /\ UNCHANGED threadVars

T_Rebalance ==
    /\ pc = "harness"
    /\ pending # <<>>
    /\ tracker' = transaction_heaps_rebalance(tracker, pending[1])
    /\ pending' = <<>>
    /\ UNCHANGED <<py, inserted>>
    /\ UNCHANGED mainVars
    /\ UNCHANGED threadVars

InitTracker ==
    /\ py \in {2, 3}
    /\ input_file = <<>>
    /\ pc = "harness"
    /\ objects = <<>>
    /\ distilled_data = 0
    /\ end_data = 0
    /\ task_queue = [t \in Threads |-> <<>>]
    /\ unfinished_tasks = [t \in Threads |-> 0]
    /\ total_amt_dict = [t \in Threads |-> <<>>]
    /\ transaction_amt_heaps = [t \in Threads |-> <<>>]
    /\ output_file = [t \in Threads |-> [exists |-> TRUE, lines |-> <<>>, closed |-> FALSE]]
    /\ data = [t \in Threads |-> 0]
    /\ state = [t \in Threads |-> "get"]
    /\ tracker = <<>>
    /\ inserted = <<>>
    /\ pending = <<>>

NextTracker ==
    \/ \E identifier \in Idents, number \in Amounts : T_Add(identifier, number)
    \/ T_Rebalance

SpecTracker == InitTracker /\ [][NextTracker]_vars

\* -------------------------------------------------------------------- Next
Main ==
    \/ \E line \in Lines : ReadLine(line)
    \/ DispatchDate
    \/ DispatchZip
    \/ EndOfFile
    \/ PutEndDate
    \/ PutEndZip
    \/ WaitDate
    \/ WaitZip

DateWorker == Get_task("date") \/ DateHandler

ZipWorker == Get_task("zip") \/ ZipHandler

Next == Main \/ DateWorker \/ ZipWorker

Spec == Init /\ [][Next]_vars

\* ------------------------------------------------------- fair scheduling
\* The behaviours checked for progress read a shorter file, made of fewer
\* kinds of line: a record for both reports, a record for the date report
\* alone, and a line without columns.
FairLines ==
    { MkLine(<<"C">>, Zip5a, Date8, <<"2">>, <<>>),
      MkLine(<<"C">>, Zip4, Date8, <<"0", ".", "7", "5">>, <<>>),
      <<"\n">> }

MainFair ==
    \/ \E line \in FairLines : Len(input_file) < MaxFairLines /\ ReadLine(line)
    \/ DispatchDate
    \/ DispatchZip
    \/ EndOfFile
    \/ PutEndDate
    \/ PutEndZip
    \/ WaitDate
    \/ WaitZip

NextFair == MainFair \/ DateWorker \/ ZipWorker

\* the scheduler lets every thread that can run do so
Fairness == WF_vars(MainFair) /\ WF_vars(DateWorker) /\ WF_vars(ZipWorker)

FairSpec == Init /\ [][NextFair]_vars /\ Fairness

\* ------------------------------------------------------------------ faults
\* self.output_file.write raises in the zip handler (the destination has
\* become unwritable): the sums and heaps are already updated, the line is
\* not written, task_done is not reached
ZipWriteRaises ==
    /\ Running
    /\ state["zip"] = "handler"
    /\ objects[data["zip"]].cmte_id # <<>>
    /\ LET d == objects[data["zip"]]
       IN  Accumulate("zip", Identifier(d.cmte_id, d.zipcode), d.transaction_amt)
    /\ thread_dies("zip")
    /\ UNCHANGED <<py, task_queue, data, output_file>>
    /\ UNCHANGED mainVars
    /\ UNCHANGED harnessVars

\* self.output_file.write raises in the date handler's end-of-stream loop
DateWriteRaises ==
    /\ Running
    /\ state["date"] = "handler"
    /\ objects[data["date"]].cmte_id = <<>>
    /\ transaction_amt_heaps["date"] # <<>>
    /\ thread_dies("date")
    /\ UNCHANGED <<py, task_queue, data, output_file, total_amt_dict,
                   transaction_amt_heaps>>
    /\ UNCHANGED mainVars
    /\ UNCHANGED harnessVars

NextFault == NextFair \/ ZipWriteRaises \/ DateWriteRaises

FaultSpec == Init /\ [][NextFault]_vars /\ Fairness

\* =============================================================== reference
\* What the reports should say, computed from the input alone.
RECURSIVE SumSeq(_)
SumSeq(s) == IF s = <<>> THEN 0 ELSE Head(s) + SumSeq(Tail(s))

Least(s) == CHOOSE x \in {s[i] : i \in 1..Len(s)} : \A i \in 1..Len(s) : x <= s[i]

RemoveAt(s, p) == SubSeq(s, 1, p - 1) \o SubSeq(s, p + 1, Len(s))

RECURSIVE SortAsc(_)
SortAsc(s) ==
    IF s = <<>> THEN <<>>
    ELSE <<Least(s)>> \o
         SortAsc(RemoveAt(s, CHOOSE i \in 1..Len(s) : s[i] = Least(s)))

\* the statistical median of a non-empty sequence of amounts (in 1/Scale
\* units), as <<numerator, denominator>>
TrueMedian(s) ==
    LET srt == SortAsc(s)
        n   == Len(s)
    IN  IF n % 2 = 1 THEN <<srt[(n + 1) \div 2], Scale>>
        ELSE <<srt[n \div 2] + srt[n \div 2 + 1], 2 * Scale>>

SameRatio(a, b) == a[1] * b[2] = b[1] * a[2]

\* ------------------------------------------------------------------ C1
\* C1: after every insertion followed by its rebalance, the value the median
\* query rounds (the root of the larger heap, or the average of the two
\* roots when the sizes are equal) is the statistical median of all the
\* amounts inserted so far under that key.
C1_MedianIsTrueMedian ==
    (pc = "harness" /\ pending = <<>>) =>
        \A i \in 1..Len(inserted) :
            /\ Has(tracker, inserted[i][1])
            /\ SameRatio(MedianFloat(tracker, inserted[i][1]),
                         TrueMedian(inserted[i][2]))

\* four amounts under one key, inserted out of order, all rebalanced
C1_Witness ==
    /\ pc = "harness"
    /\ pending = <<>>
    /\ \E i \in 1..Len(inserted) :
          /\ Len(inserted[i][2]) = 4
          /\ inserted[i][2] # SortAsc(inserted[i][2])
          /\ size(Get(tracker, inserted[i][1])[1]) = 2
          /\ size(Get(tracker, inserted[i][1])[2]) = 2

\* ------------------------------------------------- the records of the input
Column(line, position) == Split(line, "|")[position + 1]

\* the lines whose record reaches the dispatch of read_file
AcceptedLines ==
    {line \in Lines :
        /\ Len(Split(line, "|")) > OTHER_ID_POSITION
        /\ Column(line, OTHER_ID_POSITION) = <<>>
        /\ Column(line, CMTE_ID_POSITION) # <<>>
        /\ Column(line, TRANSACTION_AMT_POSITION) # <<>>
        /\ is_number(Column(line, TRANSACTION_AMT_POSITION))}

ZipEligibleLines ==
    {line \in AcceptedLines : Len(Column(line, ZIPCODE_POSITION)) >= 5}

DateEligibleLines ==
    {line \in AcceptedLines :
        /\ Column(line, TRANSACTION_DT_POSITION) # <<>>
        /\ is_valid_date(Column(line, TRANSACTION_DT_POSITION))}

\* <<committee, zip5, amount>> of a zip-eligible line
ZipRecordOf ==
    [line \in ZipEligibleLines |->
        <<Column(line, CMTE_ID_POSITION),
          SubSeq(Column(line, ZIPCODE_POSITION), 1, 5),
          float(Column(line, TRANSACTION_AMT_POSITION))>>]

\* <<committee, date, amount>> of a date-eligible line
DateRecordOf ==
    [line \in DateEligibleLines |->
        <<Column(line, CMTE_ID_POSITION),
          Column(line, TRANSACTION_DT_POSITION),
          float(Column(line, TRANSACTION_AMT_POSITION))>>]

ZipEligible(line) == line \in ZipEligibleLines

DateEligible(line) == line \in DateEligibleLines

\* the records of the zip-eligible lines, in input order
ZipRecords(lines) ==
    LET el == SelectSeq(lines, ZipEligible)
    IN  [i \in 1..Len(el) |-> ZipRecordOf[el[i]]]

\* the records of the date-eligible lines, in input order
DateRecords(lines) ==
    LET el == SelectSeq(lines, DateEligible)
    IN  [i \in 1..Len(el) |-> DateRecordOf[el[i]]]

\* the amounts of the records of recs[1..k] that are in the group <<g1, g2>>
RECURSIVE GroupAmounts(_, _, _, _)
GroupAmounts(recs, k, g1, g2) ==
    IF k = 0 THEN <<>>
    ELSE GroupAmounts(recs, k - 1, g1, g2) \o
         (IF recs[k][1] = g1 /\ recs[k][2] = g2 THEN <<recs[k][3]>> ELSE <<>>)

\* the report line of a group holding the amounts amts, with the rounding of
\* the running interpreter and the integer part of the sum
ReportLine(g1, g2, amts) ==
    <<g1, g2,
      PyRound(py, TrueMedian(amts)[1], TrueMedian(amts)[2]),
      Len(amts),
      PyInt(SumSeq(amts), Scale)>>

\* the zip report of the records recs: one line per record, running values
ExpectedZipReport(recs) ==
    [k \in 1..Len(recs) |->
        ReportLine(recs[k][1], recs[k][2],
                   GroupAmounts(recs, k, recs[k][1], recs[k][2]))]

\* the lines of the date report of the records recs: one per group
ExpectedDateLines(recs) ==
    {ReportLine(recs[k][1], recs[k][2],
                GroupAmounts(recs, Len(recs), recs[k][1], recs[k][2])) :
        k \in 1..Len(recs)}

Terminated == pc \in {"done", "exit1"}

\* ------------------------------------------------------------------ C2
\* C2: whatever the input and the interleaving, when the run is over the zip
\* report holds one line per zip-eligible record of the input, in input
\* order, the k-th line giving the median, count and total of the first k
\* zip-eligible records' contributions to its group.
C2_ZipReportPerRecord ==
    Terminated =>
        output_file["zip"].lines = ExpectedZipReport(ZipRecords(input_file))

\* what holds instead, for reference: the report is at every moment the
\* expected report of the records the zip thread has handled so far, and it
\* is whole when the main thread's waits have returned
ZipReportIsPrefix ==
    LET want == ExpectedZipReport(ZipRecords(input_file))
        got  == output_file["zip"].lines
    IN  /\ Len(got) <= Len(want)
        /\ got = SubSeq(want, 1, Len(got))
        /\ pc = "done" => got = want

\* ------------------------------------------------------------------ C3
\* C3: the date report is empty until the date thread has handled the
\* sentinel; once it has, the report holds exactly one line per distinct
\* (committee, date) group of all the date-eligible records of the input,
\* with the group's count, the sum and the median of all its amounts.
C3_DateReportAtEnd ==
    LET got  == output_file["date"].lines
        recs == DateRecords(input_file)
    IN  /\ ~output_file["date"].closed => got = <<>>
        /\ (state["date"] = "handler" /\ data["date"] = end_data) =>
               /\ pc \in {"end_zip", "wait_date"}
               /\ task_queue["date"] = <<>>
               /\ SumSeq([i \in 1..Len(transaction_amt_heaps["date"]) |->
                            Len(transaction_amt_heaps["date"][i][2][1]) +
                            Len(transaction_amt_heaps["date"][i][2][2])])
                  = Len(recs)
        /\ output_file["date"].closed =>
               /\ {got[i] : i \in 1..Len(got)} = ExpectedDateLines(recs)
               /\ Len(got) = Cardinality(ExpectedDateLines(recs))

\* the report of two groups, one of them holding the amounts 2 and 3
C3_Witness ==
    /\ output_file["date"].closed
    /\ Len(output_file["date"].lines) = 2
    /\ \E i \in 1..2 : output_file["date"].lines[i][4] = 2
    /\ \E i \in 1..2 : output_file["date"].lines[i][4] = 1

\* ------------------------------------------------------------------ C4
\* the amounts behind the k-th line of the zip report
ZipLineAmounts(k) ==
    LET recs == ZipRecords(input_file)
    IN  GroupAmounts(recs, k, recs[k][1], recs[k][2])

\* the amounts behind a line of the date report
DateLineAmounts(line) ==
    LET recs == DateRecords(input_file)
    IN  GroupAmounts(recs, Len(recs), line[1], line[2])

\* C4: the median on every line of either report is the exact median of the
\* group rounded to the nearest integer, ties away from zero.
C4_MedianTiesAwayFromZero ==
    /\ \A k \in 1..Len(output_file["zip"].lines) :
          output_file["zip"].lines[k][3] =
              RoundHalfAway(TrueMedian(ZipLineAmounts(k))[1],
                            TrueMedian(ZipLineAmounts(k))[2])
    /\ \A k \in 1..Len(output_file["date"].lines) :
          LET line == output_file["date"].lines[k]
          IN  line[3] = RoundHalfAway(TrueMedian(DateLineAmounts(line))[1],
                                      TrueMedian(DateLineAmounts(line))[2])

\* for reference: the same holds of every run on Python 2
MedianTiesAwayOnPython2 == py = 2 => C4_MedianTiesAwayFromZero

\* ------------------------------------------------------------------ C5
\* n is an integer nearest to the float sum/Scale
Nearest(n, sum) ==
    /\ 2 * (n * Scale - sum) <= Scale
    /\ 2 * (sum - n * Scale) <= Scale

\* C5: the total on every line of either report is the sum of the group's
\* amounts (running for zip, final for date) rounded to the nearest integer.
C5_TotalRoundedToNearest ==
    /\ \A k \in 1..Len(output_file["zip"].lines) :
          Nearest(output_file["zip"].lines[k][5], SumSeq(ZipLineAmounts(k)))
    /\ \A k \in 1..Len(output_file["date"].lines) :
          Nearest(output_file["date"].lines[k][5],
                  SumSeq(DateLineAmounts(output_file["date"].lines[k])))

\* ------------------------------------------------------------------ C6
\* an 8-character MMDDYYYY string naming a day of the calendar
ValidMMDDYYYY(s) ==
    /\ Len(s) = 8
    /\ AllDigits(s)
    /\ NatOf(SubSeq(s, 1, 2)) \in 1..12
    /\ NatOf(SubSeq(s, 5, 8)) >= 1
    /\ NatOf(SubSeq(s, 3, 4)) \in
           1..DaysIn(NatOf(SubSeq(s, 1, 2)), NatOf(SubSeq(s, 5, 8)))

\* the line just read has its 16 columns and must be dropped whole
MustDrop(line) ==
    \/ Column(line, OTHER_ID_POSITION) # <<>>
    \/ Column(line, CMTE_ID_POSITION) = <<>>
    \/ Column(line, TRANSACTION_AMT_POSITION) = <<>>
    \/ ~is_number(Column(line, TRANSACTION_AMT_POSITION))

QueuesUnchanged == UNCHANGED <<task_queue, unfinished_tasks>>

Enqueued(t, id) ==
    /\ task_queue'[t] = Append(task_queue[t], id)
    /\ \A u \in Threads \ {t} : task_queue'[u] = task_queue[u]

\* a step of read_file that reads a line of at least 16 columns
ReadsFullLine ==
    /\ pc = "read"
    /\ Len(input_file') = Len(input_file) + 1
    /\ Len(Split(input_file'[Len(input_file')], "|")) > OTHER_ID_POSITION

RoutingOfDrop ==
    ReadsFullLine =>
        LET line == input_file'[Len(input_file')]
        IN  IF MustDrop(line)
            THEN pc' = "read" /\ QueuesUnchanged
            ELSE /\ pc' = "date"
                 /\ QueuesUnchanged
                 /\ objects'[distilled_data'].transaction_dt =
                        Column(line, TRANSACTION_DT_POSITION)
                 /\ objects'[distilled_data'].zipcode =
                        Column(line, ZIPCODE_POSITION)

RoutingOfZip ==
    (pc = "zip" /\ pc' = "read") =>
        IF Len(objects[distilled_data].zipcode) >= 5
        THEN /\ Enqueued("zip", distilled_data)
             /\ objects'[distilled_data].zipcode =
                    SubSeq(objects[distilled_data].zipcode, 1, 5)
        ELSE QueuesUnchanged

\* C6: a record with a non-empty other id, an empty committee id or an empty
\* or non-numeric amount goes to neither queue; any other record goes to the
\* date queue exactly when its date is a valid MMDDYYYY date, and to the zip
\* queue, cut to 5 characters, exactly when its zip has 5 characters or more.
C6_Routing ==
    [][ /\ RoutingOfDrop
        /\ (pc = "date" /\ pc' = "zip") =>
               IF ValidMMDDYYYY(objects[distilled_data].transaction_dt)
               THEN Enqueued("date", distilled_data)
               ELSE QueuesUnchanged
        /\ RoutingOfZip ]_vars

\* for reference: what the code does with the date is what strptime accepts
RoutingAsCoded ==
    [][ /\ RoutingOfDrop
        /\ (pc = "date" /\ pc' = "zip") =>
               IF /\ objects[distilled_data].transaction_dt # <<>>
                  /\ is_valid_date(objects[distilled_data].transaction_dt)
               THEN Enqueued("date", distilled_data)
               ELSE QueuesUnchanged
        /\ RoutingOfZip ]_vars

\* ------------------------------------------------------------------ C7
\* C7: no line stops the stream: after any line, one with fewer than 16
\* columns included, read_file is still in its loop (at its top, or
\* dispatching the record of the line).
C7_NoLineStopsTheStream ==
    [][ (pc = "read" /\ Len(input_file') = Len(input_file) + 1) =>
            pc' \in {"read", "date"} ]_vars

\* ------------------------------------------------------------------ C8
\* the thread has handled every item put on its queue, the sentinel included
Drained(t) ==
    /\ task_queue[t] = <<>>
    /\ state[t] = "get"
    /\ data[t] = end_data
    /\ output_file[t].closed

DateReportComplete ==
    LET got == output_file["date"].lines
    IN  /\ output_file["date"].closed
        /\ {got[i] : i \in 1..Len(got)} = ExpectedDateLines(DateRecords(input_file))
        /\ Len(got) = Cardinality(ExpectedDateLines(DateRecords(input_file)))

ZipReportComplete ==
    /\ output_file["zip"].closed
    /\ output_file["zip"].lines = ExpectedZipReport(ZipRecords(input_file))

\* C8: on an input every line of which has its columns (read_file never
\* exits), under fair scheduling both waits of the main thread return; when
\* the wait on the date thread has returned that thread has handled all its
\* items, its report is whole and closed, and likewise for the zip thread
\* when the second wait has returned.
C8_WaitsReturn ==
    /\ [](pc \in {"wait_zip", "done"} => Drained("date") /\ DateReportComplete)
    /\ [](pc = "done" => Drained("zip") /\ ZipReportComplete)
    /\ ([](pc # "exit1")) => <>(pc = "done")

\* both waits have returned on an input that fed both threads
C8_Witness ==
    /\ pc = "done"
    /\ Len(output_file["zip"].lines) >= 2
    /\ Len(output_file["date"].lines) >= 1

\* ------------------------------------------------------------------ C9
\* C9: when a handler has failed (its thread is gone), the process ends: the
\* main thread does not stay blocked in wait_complete.
C9_FailureEndsTheRun ==
    (\E t \in Threads : state[t] = "dead") ~> Terminated

\* ------------------------------------------------------------------ C10
\* C10: a run that is over has left both reports whole, or no report file
\* at all (not a file holding a prefix of the lines, not an empty one).
C10_WholeOrNothing ==
    Terminated =>
        \/ DateReportComplete /\ ZipReportComplete
        \/ \A t \in Threads : ~output_file[t].exists

\* ------------------------------------------------- the heaps of one key
Abs(x) == IF x < 0 THEN -x ELSE x

SizeGap(pair) == Abs(size(pair[1]) - size(pair[2]))

\* the amounts a pair of heaps holds: lower stores them negated
HeapValues(pair) == [i \in 1..Len(pair[1]) |-> -pair[1][i]] \o pair[2]

\* ----------------------------------------------------------------- C11
\* C11: for every key, the sizes of lower and higher differ by at most 2
\* after an insert and by at most 1 after the rebalance that follows it,
\* and that one rebalance changes the size of each heap by at most one.
C11_BalanceAfterRebalance ==
    [][pc = "harness" =>
         /\ \A i \in 1..Len(tracker') :
               /\ SizeGap(tracker'[i][2]) <= 2
               /\ pending' = <<>> => SizeGap(tracker'[i][2]) <= 1
         /\ pending # <<>> =>
               LET before == Get(tracker, pending[1])
                   after  == Get(tracker', pending[1])
               IN  /\ Abs(size(after[1]) - size(before[1])) <= 1
                   /\ Abs(size(after[2]) - size(before[2])) <= 1]_vars

\* three amounts under one key, each below the one before, so that the
\* second insert left lower two ahead and its rebalance moved the root
C11_Witness ==
    /\ pc = "harness"
    /\ pending = <<>>
    /\ \E i \in 1..Len(inserted) :
          /\ Len(inserted[i][2]) = 3
          /\ inserted[i][2][1] > inserted[i][2][2]
          /\ inserted[i][2][2] > inserted[i][2][3]
          /\ size(Get(tracker, inserted[i][1])[1]) = 2
          /\ size(Get(tracker, inserted[i][1])[2]) = 1

\* ----------------------------------------------------------------- C12
\* C12: for every key, after an insert and after a rebalance alike, the two
\* heaps together hold exactly the amounts inserted under that key, each as
\* often as it was inserted, and the count the handlers write (the sum of
\* the two sizes) is the number of those insertions.
C12_HeapsHoldWhatWasInserted ==
    pc = "harness" =>
        \A i \in 1..Len(inserted) :
            /\ Has(tracker, inserted[i][1])
            /\ NumberOfTransactions(tracker, inserted[i][1]) = Len(inserted[i][2])
            /\ SortAsc(HeapValues(Get(tracker, inserted[i][1]))) =
                   SortAsc(inserted[i][2])

\* a key whose rebalance has moved an amount across, holding one amount twice
C12_Witness ==
    /\ pc = "harness"
    /\ pending = <<>>
    /\ \E i \in 1..Len(inserted) :
          /\ Len(inserted[i][2]) = 4
          /\ inserted[i][2][1] = inserted[i][2][4]
          /\ inserted[i][2][2] < inserted[i][2][1]
          /\ inserted[i][2][3] < inserted[i][2][2]
          /\ SizeGap(Get(tracker, inserted[i][1])) = 0

\* ----------------------------------------------------------------- C14
\* C14: after every rebalance, for every key whose two heaps are both
\* non-empty, the root of lower (its greatest amount) is at most the root
\* of higher (its least amount).
C14_RootsOrdered ==
    (pc = "harness" /\ pending = <<>>) =>
        \A i \in 1..Len(tracker) :
            (~empty(tracker[i][2][1]) /\ ~empty(tracker[i][2][2])) =>
                MaxHeap_peek(tracker[i][2][1]) <= MinHeap_peek(tracker[i][2][2])

\* a key with one amount in lower and two in higher, the roots apart
C14_Witness ==
    /\ pc = "harness"
    /\ pending = <<>>
    /\ \E i \in 1..Len(tracker) :
          /\ size(tracker[i][2][1]) = 1
          /\ size(tracker[i][2][2]) = 2
          /\ MaxHeap_peek(tracker[i][2][1]) < MinHeap_peek(tracker[i][2][2])

\* ----------------------------------------------------------------- C13
\* the key a thread files a record under
KeyOf(t, d) ==
    IF t = "date" THEN Identifier(d.cmte_id, d.transaction_dt)
    ELSE Identifier(d.cmte_id, d.zipcode)

\* the step is thread t's handler returning from a record (not the end marker)
HandlesRecord(t) ==
    /\ state[t] = "handler"
    /\ state'[t] # "handler"
    /\ objects[data[t]].cmte_id # <<>>

\* what the step adds to the running sum of key k of thread t
AmountApplied(t, k) ==
    IF HandlesRecord(t) /\ k = KeyOf(t, objects[data[t]])
    THEN objects[data[t]].transaction_amt
    ELSE 0

\* C13 as stated: for every group key, the running sum in total_amt_dict
\* never decreases from one processed record of the group to the next.
C13_SumNeverDecreases ==
    [][\A t \in Threads : \A i \in 1..Len(total_amt_dict[t]) :
          /\ Has(total_amt_dict'[t], total_amt_dict[t][i][1])
          /\ Get(total_amt_dict'[t], total_amt_dict[t][i][1]) >=
                 total_amt_dict[t][i][2]]_vars

\* C13, amended: for every group key, the running sum after a processed
\* record of the group is the sum before it (0 for the first) plus that
\* record's amount, and no other step changes it: the sum never decreases
\* across a record whose amount is zero or positive, and a record with a
\* negative amount lowers it by that amount.
C13_SumMovesByTheAmount ==
    [][\A t \in Threads : \A i \in 1..Len(total_amt_dict'[t]) :
          LET k   == total_amt_dict'[t][i][1]
              new == total_amt_dict'[t][i][2]
              old == IF Has(total_amt_dict[t], k)
                     THEN Get(total_amt_dict[t], k) ELSE 0
          IN  /\ new = old + AmountApplied(t, k)
              /\ AmountApplied(t, k) >= 0 => new >= old
              /\ \A j \in 1..Len(total_amt_dict[t]) :
                    Has(total_amt_dict'[t], total_amt_dict[t][j][1])]_vars

\* a zip group of two records, amounts 2 and -2 in either order, whose
\* running sum is back at 0
C13_Witness ==
    /\ pc # "harness"
    /\ \E i \in 1..Len(total_amt_dict["zip"]) :
          /\ total_amt_dict["zip"][i][2] = 0
          /\ NumberOfTransactions(transaction_amt_heaps["zip"],
                                  total_amt_dict["zip"][i][1]) = 2
          /\ SortAsc(HeapValues(Get(transaction_amt_heaps["zip"],
                                    total_amt_dict["zip"][i][1]))) =
                 <<-2 * Scale, 2 * Scale>>

\* ----------------------------------------------------------------- C15
\* C15: the median is never asked of a key that has no tracker or an empty
\* one. Every key of either worker's transaction_amt_heaps holds at least
\* one amount (so the date handler's loop at the end of the stream asks
\* only such keys), the key the zip handler asks after a record is the key
\* it has just inserted under (between two records the zip report has one
\* line for each amount its trackers hold), and no query has raised: no
\* thread has died and every line written carries the median as an integer.
C15_MedianAskedOfFilledTrackers ==
    pc # "harness" =>
        \A t \in Threads :
            /\ state[t] # "dead"
            /\ \A i \in 1..Len(transaction_amt_heaps[t]) :
                  /\ ~MedianRaises(transaction_amt_heaps[t],
                                   transaction_amt_heaps[t][i][1])
                  /\ NumberOfTransactions(transaction_amt_heaps[t],
                                          transaction_amt_heaps[t][i][1]) >= 1
            /\ \A i \in 1..Len(output_file[t].lines) :
                  /\ output_file[t].lines[i][3] \in Int
                  /\ t = "zip" =>
                        Has(transaction_amt_heaps[t],
                            Identifier(output_file[t].lines[i][1],
                                       output_file[t].lines[i][2]))
            /\ (t = "zip" /\ pc \notin {"exit1"} /\ state[t] = "get") =>
                  Len(output_file[t].lines) =
                      SumSeq([i \in 1..Len(transaction_amt_heaps[t]) |->
                                 NumberOfTransactions(transaction_amt_heaps[t],
                                     transaction_amt_heaps[t][i][1])])

\* the zip handler has asked after each of two records and the date
\* handler's loop has asked every key of two
C15_Witness ==
    /\ pc = "done"
    /\ Len(output_file["zip"].lines) >= 2
    /\ Len(transaction_amt_heaps["date"]) = 2
    /\ Len(output_file["date"].lines) = 2
    /\ output_file["date"].closed

\* ----------------------------------------------------------------- C16
\* how often x occurs in the sequence s
Count(s, x) == Cardinality({i \in 1..Len(s) : s[i] = x})

\* how often the end marker has been put on thread t's queue, read off
\* where it is now: waiting in the queue, held by the handler, or handled
\* (the handler of the end marker is what closes the output file)
SentinelsPut(t) ==
    IF end_data = 0 THEN 0
    ELSE Count(task_queue[t], end_data)
         + (IF state[t] = "handler" /\ data[t] = end_data THEN 1 ELSE 0)
         + (IF output_file[t].closed THEN 1 ELSE 0)

\* C16: in every run in which read_file completes, the end marker is put
\* exactly once on the date queue and exactly once on the zip queue (and
\* not before its put is reached), it is the last item of the queue, and a
\* worker that has closed its output file has an empty queue and handles
\* nothing more.
C16_SentinelOnceAndLast ==
    pc # "harness" =>
        \A t \in Threads :
            /\ SentinelsPut(t) =
                   (IF \/ pc \in {"wait_date", "wait_zip", "done"}
                       \/ (t = "date" /\ pc = "end_zip")
                    THEN 1 ELSE 0)
            /\ Count(task_queue[t], end_data) = 1 =>
                   task_queue[t][Len(task_queue[t])] = end_data
            /\ output_file[t].closed =>
                   /\ task_queue[t] = <<>>
                   /\ state[t] = "get"
                   /\ unfinished_tasks[t] = 0

\* read_file has returned after two records and both workers have handled
\* their end marker
C16_Witness ==
    /\ pc = "done"
    /\ Len(objects) = 3
    /\ output_file["date"].closed
    /\ output_file["zip"].closed
    /\ Len(output_file["zip"].lines) = 2

\* ----------------------------------------------------------------- C17
Other(t) == IF t = "date" THEN "zip" ELSE "date"

\* every entry of dictionary d under a key other than k is in d2 unchanged,
\* and d2 has no key that is neither k nor a key of d
SameButFor(d, d2, k) ==
    /\ \A i \in 1..Len(d) :
          d[i][1] # k => (Has(d2, d[i][1]) /\ Get(d2, d[i][1]) = d[i][2])
    /\ \A i \in 1..Len(d2) : d2[i][1] # k => Has(d, d2[i][1])

\* C17: a worker handling a record of group key k leaves the two heaps and
\* the running sum of each of its other keys as they were and creates no
\* other key, and leaves all state of the other worker (its queue, its
\* trackers and sums, its output file, the item it holds and its position)
\* unchanged.
C17_OnlyTheRecordsGroupChanges ==
    [][\A t \in Threads :
          HandlesRecord(t) =>
              LET k == KeyOf(t, objects[data[t]])
                  u == Other(t)
              IN  /\ SameButFor(transaction_amt_heaps[t],
                                transaction_amt_heaps'[t], k)
                  /\ SameButFor(total_amt_dict[t], total_amt_dict'[t], k)
                  /\ transaction_amt_heaps'[u] = transaction_amt_heaps[u]
                  /\ total_amt_dict'[u] = total_amt_dict[u]
                  /\ task_queue'[u] = task_queue[u]
                  /\ unfinished_tasks'[u] = unfinished_tasks[u]
                  /\ output_file'[u] = output_file[u]
                  /\ data'[u] = data[u]
                  /\ state'[u] = state[u]]_vars

\* the zip worker keeps two groups, one of them with two records, while
\* the date worker keeps a group of its own
C17_Witness ==
    /\ pc # "harness"
    /\ Len(transaction_amt_heaps["zip"]) = 2
    /\ Len(output_file["zip"].lines) = 3
    /\ Len(transaction_amt_heaps["date"]) >= 1
    /\ state["zip"] = "get"

\* ----------------------------------------------------------------- C18
\* the objects a worker can reach: those on its queue and the one it holds
Refs(queue, st, held) ==
    {queue[i] : i \in 1..Len(queue)} \cup (IF st = "handler" THEN {held} ELSE {})

\* C18: the queues are all that the producer and the workers share: an
\* object within reach of one worker is not within reach of the other, and
\* no step changes an object that is within reach of a worker.
C18_NothingSharedButTheQueues ==
    [][pc # "harness" =>
         /\ Refs(task_queue'["date"], state'["date"], data'["date"]) \cap
            Refs(task_queue'["zip"], state'["zip"], data'["zip"]) = {}
         /\ \A t \in Threads :
               \A id \in Refs(task_queue[t], state[t], data[t]) :
                   objects'[id] = objects[id]]_vars

\* ----------------------------------------------------------------- C19
\* the date report of the records recs when the groups are written in the
\* order of their first record
ExpectedDateSequence(recs) ==
    LET RECURSIVE Build(_)
        Build(k) ==
            IF k > Len(recs) THEN <<>>
            ELSE (IF \A j \in 1..(k - 1) :
                        <<recs[j][1], recs[j][2]>> # <<recs[k][1], recs[k][2]>>
                  THEN <<ReportLine(recs[k][1], recs[k][2],
                                    GroupAmounts(recs, Len(recs),
                                                 recs[k][1], recs[k][2]))>>
                  ELSE <<>>) \o Build(k + 1)
    IN  Build(1)

\* the two reports as the input alone gives them; the order of the lines of
\* the date report is the dictionary's, which the input fixes on Python 3
\* (insertion order) and which is left open here on Python 2
ReportsAreThoseOfTheInput ==
    /\ output_file["zip"].lines = ExpectedZipReport(ZipRecords(input_file))
    /\ IF output_file["date"].closed
       THEN LET got  == output_file["date"].lines
                want == ExpectedDateSequence(DateRecords(input_file))
            IN  IF py = 3 THEN got = want
                ELSE /\ Len(got) = Len(want)
                     /\ {got[i] : i \in 1..Len(got)} =
                            {want[i] : i \in 1..Len(want)}
       ELSE output_file["date"].lines = <<>>

\* C19: the reports a run leaves behind depend on the input only, not on
\* how the main thread, the date thread and the zip thread interleave: at
\* the end of every run the zip report and the date report are the ones the
\* input determines.
C19_ReportsDependOnInputOnly ==
    (pc # "harness" /\ Terminated) =>
        /\ ReportsAreThoseOfTheInput
        /\ pc = "done" => output_file["date"].closed

\* what holds instead, for reference: of the runs that reach the end of
\* the main block
ReportsDeterminedWhenComplete ==
    pc = "done" => (ReportsAreThoseOfTheInput /\ output_file["date"].closed)

============================================================================
